---- MODULE Spec2Model ----
(***************************************************************************)
(* Model of the ASCII streamer (src/app.py): the frame cache               *)
(* (load_json_frames), the scrolling banner (shift_lines), the compositor  *)
(* (render_frame_with_banner) and the streaming async generator            *)
(* (stream_json_with_banner) driven by its consumer.                       *)
(*                                                                         *)
(* Text is a sequence of one-element strings; a control sequence is one    *)
(* element ("ESC[K"), a newline is the element "\n".                       *)
(***************************************************************************)
EXTENDS Integers, Sequences, FiniteSets, TLC

(* ------------------------------ bounds -------------------------------- *)
\* frame buffers a session may emit before only stopping it is possible
MaxEmit == 5
\* ticks explored for one banner template
MaxTick == 9
\* widest line of the small templates given to shift_lines
MaxWidth == 3
\* filler sources available for loading besides the named ones
MaxFresh == 33
\* decodes of one source after which the cache model decodes it no more
MaxDecodes == 3
\* longest raw art line and most raw art lines given to the block builder
MaxRawLen == 3
MaxRawLines == 2
\* frame buffers per session in the model of concurrent sessions
MaxConcEmit == 2

(* --------------------------- Python helpers --------------------------- *)
Max(a, b) == IF a >= b THEN a ELSE b
Min(a, b) == IF a <= b THEN a ELSE b

\* s[o:] of a Python sequence (o >= 0, clamped to the length)
SliceFrom(s, o) == SubSeq(s, Min(o, Len(s)) + 1, Len(s))
\* s[:o] of a Python sequence (o >= 0, clamped to the length)
SliceTo(s, o) == SubSeq(s, 1, Min(o, Len(s)))

\* str.ljust(width): pad on the right with spaces, never truncate
ljust(s, width) == s \o [k \in 1..Max(0, width - Len(s)) |-> " "]

RECURSIVE SplitAcc(_, _, _)
SplitAcc(text, cur, acc) ==
    IF text = <<>> THEN (IF cur = <<>> THEN acc ELSE Append(acc, cur))
    ELSE IF Head(text) = "\n" THEN SplitAcc(Tail(text), <<>>, Append(acc, cur))
    ELSE SplitAcc(Tail(text), Append(cur, Head(text)), acc)
\* str.splitlines(): lines without their newline, no empty last line
splitlines(text) == SplitAcc(text, <<>>, <<>>)

RECURSIVE Count(_, _)
\* number of elements of the sequence s equal to x
Count(s, x) ==
    IF s = <<>> THEN 0 ELSE (IF Head(s) = x THEN 1 ELSE 0) + Count(Tail(s), x)

(* ----------------------------- BannerTrack ---------------------------- *)
PADDING == 10

\* the offset of shift_lines with the modulus forgotten
shift_offset_n(offset, total_width) == offset
\* the offset of shift_lines with the modulus off by one
shift_offset_m(offset, total_width) == offset % Max(1, total_width - 1)
shift_offset(offset, total_width) == offset % Max(1, total_width)

shift_lines(lines, offset, total_width) ==
    LET o == shift_offset(offset, total_width)
    IN  [j \in 1..Len(lines) |-> SliceFrom(lines[j], o) \o SliceTo(lines[j], o)]

IsSpace(c) == c \in {" ", "\n", "\t"}

RECURSIVE rstrip(_)
\* str.rstrip(): drop the trailing whitespace
rstrip(s) ==
    IF s # <<>> /\ IsSpace(s[Len(s)]) THEN rstrip(SubSeq(s, 1, Len(s) - 1)) ELSE s

\* str.strip() is non-empty: the line has a non-whitespace character
NonBlank(s) == \E k \in 1..Len(s) : ~IsSpace(s[k])

RECURSIVE SplitWs(_, _, _)
SplitWs(text, cur, acc) ==
    IF text = <<>> THEN (IF cur = <<>> THEN acc ELSE Append(acc, cur))
    ELSE IF IsSpace(Head(text))
         THEN SplitWs(Tail(text), <<>>, IF cur = <<>> THEN acc ELSE Append(acc, cur))
         ELSE SplitWs(Tail(text), Append(cur, Head(text)), acc)
\* str.split(): the words between runs of whitespace
split(text) == SplitWs(text, <<>>, <<>>)

RECURSIVE join(_, _)
\* sep.join(words)
join(sep, words) ==
    IF words = <<>> THEN <<>>
    ELSE IF Len(words) = 1 THEN words[1]
    ELSE words[1] \o sep \o join(sep, Tail(words))

RECURSIVE MaxLen(_)
\* max((len(ln) for ln in raw), default=0)
MaxLen(raw) ==
    IF raw = <<>> THEN 0 ELSE Max(Len(Head(raw)), MaxLen(Tail(raw)))

\* a stand-in of the big logo: a blank first line, then art lines with
\* trailing blanks, as the raw triple-quoted block has
BANNER_BIG_RAW ==
    << <<>>,
       <<" ", "/", "$", " ">>,
       <<"|", "_", "/", " ", " ">>,
       <<" ", " ">> >>

\* the builder that measures the lines before it drops the blank ones and
\* trims the others
normalize_banner_lines_m(lines, pad) ==
    LET kept == [k \in 1..Len(SelectSeq(lines, NonBlank)) |->
                    rstrip(SelectSeq(lines, NonBlank)[k])]
        width == MaxLen(lines) + pad
    IN  [lines |-> [k \in 1..Len(kept) |-> ljust(kept[k], width)], width |-> width]
normalize_banner_lines(lines, pad) ==
    LET raw == [k \in 1..Len(SelectSeq(lines, NonBlank)) |->
                    rstrip(SelectSeq(lines, NonBlank)[k])]
        max_len == MaxLen(raw)
        width == max_len + pad
        fixed == [k \in 1..Len(raw) |-> ljust(raw[k], width)]
    IN  [lines |-> fixed, width |-> width]

BANNER_BIG == normalize_banner_lines(BANNER_BIG_RAW, PADDING).lines
BANNER_BIG_WIDTH == normalize_banner_lines(BANNER_BIG_RAW, PADDING).width

make_ticker_lines(text, pad) ==
    LET base == join(<<" ">>, split(text))
        width == Len(base) + pad
    IN  [lines |-> <<ljust(base, width)>>, width |-> width]

(* --------------------------- FrameCompositor -------------------------- *)
ESC_K == "ESC[K"
ESC_J == "ESC[J"
ESC_H == "ESC[H"
NL == "\n"

\* what Rich writes for one element of a marked-up line: the colour tag
\* becomes a true-colour foreground escape, the closing tag a reset
RichElement(e) ==
    CASE e = "[rgb(" -> "ESC[38;2;"
      [] e = ")]"    -> "m"
      [] e = "[/]"   -> "ESC[0m"
      [] OTHER       -> e

RECURSIVE MarkupDepthOk(_, _)
\* Rich raises MarkupError on a closing tag that has nothing to close
MarkupDepthOk(line, depth) ==
    IF line = <<>> THEN TRUE
    ELSE IF Head(line) = "[rgb(" THEN MarkupDepthOk(Tail(line), depth + 1)
    ELSE IF Head(line) = "[/]" THEN depth > 0 /\ MarkupDepthOk(Tail(line), depth - 1)
    ELSE MarkupDepthOk(Tail(line), depth)

\* CONSOLE.print(line, end="") into the buffer
ConsolePrint(line) == [k \in 1..Len(line) |-> RichElement(line[k])]
ConsolePrintRaises(line) == ~MarkupDepthOk(line, 0)

\* the line printer that forgets the erase-to-end-of-line
print_line_and_clear_m(buf, line) == buf \o ConsolePrint(line) \o <<NL>>
\* print_line_and_clear: the line, ESC[K, newline
print_line_and_clear(buf, line) == buf \o ConsolePrint(line) \o <<ESC_K, NL>>

RECURSIVE PrintAll(_, _)
PrintAll(buf, lines) ==
    IF lines = <<>> THEN buf
    ELSE PrintAll(print_line_and_clear(buf, Head(lines)), Tail(lines))

\* f"[rgb({banner_color})]{ln}[/]"
ColorWrap(banner_color, ln) == <<"[rgb(", banner_color, ")]">> \o ln \o <<"[/]">>

\* the compositor that returns before the erase-to-end-of-screen
render_frame_with_banner_m(frame_rich_text, banner_lines, banner_color) ==
    PrintAll(print_line_and_clear(PrintAll(<<>>, splitlines(frame_rich_text)), <<>>),
             [k \in 1..Len(banner_lines) |-> ColorWrap(banner_color, banner_lines[k])])
render_frame_with_banner(frame_rich_text, banner_lines, banner_color) ==
    LET content == PrintAll(<<>>, splitlines(frame_rich_text))
        sep == print_line_and_clear(content, <<>>)
        banner == PrintAll(sep, [k \in 1..Len(banner_lines) |->
                                    ColorWrap(banner_color, banner_lines[k])])
    IN  banner \o <<ESC_J>>

\* the composition raises when Rich rejects a line of the frame
RenderRaises(frame_rich_text) ==
    \E k \in 1..Len(splitlines(frame_rich_text)) :
        ConsolePrintRaises(splitlines(frame_rich_text)[k])

(* ------------------------------ FrameStore ---------------------------- *)
\* Source identifiers are numbers.  RelPath is a relative path; the named
\* absolute paths 1..8 have the file states below; every larger number is
\* a further absolute path of a valid one-frame file.
RelPath == 0
NamedPaths == 0..8
FreshPaths == 9..(8 + MaxFresh)

isabs(json_path) == json_path # RelPath
exists(json_path) == json_path # 4

Str(text) == [isStr |-> TRUE, text |-> text]
NotStr == [isStr |-> FALSE, text |-> <<>>]

\* json.load(f): the decoded content of the file, "ok" false when the file
\* is not JSON at all
FileData(json_path) ==
    CASE json_path = 1 ->
           [ok |-> TRUE, isList |-> TRUE,
            items |-> << Str(<<"a", NL, "b">>), Str(<<"c">>), Str(<<>>) >>]
      [] json_path = 2 ->
           [ok |-> TRUE, isList |-> TRUE, items |-> << Str(<<"d", NL>>), Str(<<"e">>) >>]
      [] json_path = 3 ->
           [ok |-> TRUE, isList |-> TRUE, items |-> << Str(<<"f">>), Str(<<"g", "[/]">>) >>]
      [] json_path = 5 -> [ok |-> TRUE, isList |-> FALSE, items |-> <<>>]
      [] json_path = 6 -> [ok |-> TRUE, isList |-> TRUE, items |-> <<>>]
      [] json_path = 7 -> [ok |-> TRUE, isList |-> TRUE, items |-> << Str(<<"h">>), NotStr >>]
      [] json_path = 8 -> [ok |-> FALSE, isList |-> FALSE, items |-> <<>>]
      [] OTHER -> [ok |-> TRUE, isList |-> TRUE, items |-> << Str(<<"x">>) >>]

\* for i, fr in enumerate(data): isinstance(fr, str)
AllStr(items) == \A k \in 1..Len(items) : items[k].isStr

\* the body of load_json_frames: what it raises or returns, and whether the
\* file was decoded
load_body(json_path) ==
    IF ~isabs(json_path)
      THEN [raised |-> "ValueError", value |-> <<>>, decoded |-> FALSE]
    ELSE IF ~exists(json_path)
      THEN [raised |-> "FileNotFoundError", value |-> <<>>, decoded |-> FALSE]
    ELSE LET data == FileData(json_path) IN
         IF ~data.ok
           THEN [raised |-> "JSONDecodeError", value |-> <<>>, decoded |-> TRUE]
         ELSE IF ~data.isList \/ data.items = <<>>
           THEN [raised |-> "ValueError", value |-> <<>>, decoded |-> TRUE]
         ELSE IF ~AllStr(data.items)
           THEN [raised |-> "ValueError", value |-> <<>>, decoded |-> TRUE]
         ELSE [raised |-> "none", value |-> data.items, decoded |-> TRUE]

\* @lru_cache(maxsize=32)
maxsize == 32

CacheKeys(c) == {c[k].key : k \in 1..Len(c)}
CacheIndex(c, key) == CHOOSE k \in 1..Len(c) : c[k].key = key
Without(c, k) == SubSeq(c, 1, k - 1) \o SubSeq(c, k + 1, Len(c))

\* a full cache that evicts its most recent entry instead of the oldest
lru_insert_m(c, entry) ==
    IF Len(c) >= maxsize THEN Append(SubSeq(c, 1, Len(c) - 1), entry) ELSE Append(c, entry)
\* the entries are kept oldest first; a full cache evicts the oldest
lru_insert(c, entry) ==
    IF Len(c) >= maxsize THEN Append(Tail(c), entry) ELSE Append(c, entry)

\* a cache that also remembers what a failed call produced
lru_store_m(c, json_path, r) == lru_insert(c, [key |-> json_path, value |-> r.value])
\* a call that raises stores nothing
lru_store(c, json_path, r) ==
    IF r.raised = "none" THEN lru_insert(c, [key |-> json_path, value |-> r.value]) ELSE c

\* load_json_frames through its cache: a hit returns the stored list and
\* makes the entry the most recent
load_json_frames(c, json_path) ==
    IF json_path \in CacheKeys(c)
      THEN LET k == CacheIndex(c, json_path) IN
           [cache |-> Append(Without(c, k), c[k]), raised |-> "none",
            value |-> c[k].value, decoded |-> FALSE, hit |-> TRUE]
      ELSE LET r == load_body(json_path) IN
           [cache |-> lru_store(c, json_path, r), raised |-> r.raised,
            value |-> r.value, decoded |-> r.decoded, hit |-> FALSE]

(* --------------------------- AnimationStream -------------------------- *)
\* setup and teardown sequences of the two screen modes
start_seq(alt_screen) ==
    IF alt_screen THEN <<"ESC[?1049h", "ESC[2J", "ESC[H", "ESC[?25l">>
    ELSE <<"ESC[2J", "ESC[H", "ESC[?25l">>
\* a teardown that leaves the alternate screen in both modes
end_seq_m(alt_screen) == <<"ESC[?25h", "ESC[?1049l">>
end_seq(alt_screen) ==
    IF alt_screen THEN <<"ESC[?25h", "ESC[?1049l">> ELSE <<"ESC[?25h">>

\* CancelledError and GeneratorExit derive from BaseException only
IsException(exc) == exc \notin {"none", "CancelledError", "GeneratorExit"}

\* the generator object before its first step.  pc is where it is
\* suspended: "created" (not started), "start" (line 194), "frame" (line
\* 203), "sleep" (line 204), "end" (line 209), "done"; pending is the
\* exception the finally block will re-raise; closed is the flag aclose sets
NewGen ==
    [pc |-> "created", pending |-> "none", closed |-> FALSE,
     frames |-> <<>>, start |-> <<>>, end |-> <<>>,
     banner_template |-> <<>>, banner_width |-> 0,
     banner_offset |-> 0, n |-> 0, i |-> 0]

\* what one resumption of the generator produces
Yielded(gen, buf) == [g |-> gen, hasYield |-> TRUE, yielded |-> buf, raised |-> "none"]
Raised(gen, exc) == [g |-> gen, hasYield |-> FALSE, yielded |-> <<>>, raised |-> exc]
Awaiting(gen) == [g |-> gen, hasYield |-> FALSE, yielded |-> <<>>, raised |-> "none"]

\* except asyncio.CancelledError: pass -- anything else stays pending
except_clause(exc) == IF exc = "CancelledError" THEN "none" ELSE exc

\* a handler placed inside the loop: the teardown is emitted and the loop
\* goes on
finally_block_m(gen, pend) == Yielded([gen EXCEPT !.pc = "frame"], gen.end)
\* finally: yield end -- the generator suspends at line 209
finally_block(gen, pend) == Yielded([gen EXCEPT !.pc = "end", !.pending = pend], gen.end)

\* an exception raised inside the try block (lines 194-204)
unwind(gen, exc) == finally_block(gen, except_clause(exc))

\* the inner handler that swallows nothing
teardown_except_m(exc) == FALSE
\* except Exception: pass around the teardown yield
teardown_except(exc) == IsException(exc)

\* the end of the finally block: the pending exception is raised again,
\* without one the generator returns
after_finally(gen) ==
    Raised([gen EXCEPT !.pc = "done", !.pending = "none"],
           IF gen.pending = "none" THEN "StopAsyncIteration" ELSE gen.pending)

\* an index that stays on the last frame
next_index_m(i, n) == IF i + 1 < n THEN i + 1 ELSE i
\* for i in range(n) inside while True: after n - 1 comes 0
next_index(i, n) == IF i + 1 < n THEN i + 1 ELSE 0

\* a tick that is not advanced
next_tick_m(banner_offset) == banner_offset
\* banner_offset += 1
next_tick(banner_offset) == banner_offset + 1

\* a loop that makes one pass over the frames
loop_continues_m(i, n) == i + 1 < n
\* a loop that stops after its first frame
loop_continues_n(i, n) == FALSE
\* while True: the for loop over the frames is entered again after frame i
loop_continues(i, n) == TRUE

\* one pass of the loop body (lines 199-203) for the frame index gen.i
loop_body(gen, banner_color) ==
    LET shifted == shift_lines(gen.banner_template, gen.banner_offset, gen.banner_width)
        frame == gen.frames[gen.i + 1].text
    IN  IF RenderRaises(frame) THEN unwind(gen, "MarkupError")
        ELSE Yielded([gen EXCEPT !.pc = "frame", !.banner_offset = next_tick(gen.banner_offset)],
                     <<ESC_H>> \o render_frame_with_banner(frame, shifted, banner_color))

\* lines 176-194 with the frames already loaded
setup(gen, a, frames) ==
    LET banner == IF a.banner_kind = "big"
                  THEN [lines |-> BANNER_BIG, width |-> BANNER_BIG_WIDTH]
                  ELSE make_ticker_lines(a.banner_text, PADDING)
        g1 == [gen EXCEPT !.frames = frames,
                          !.start = start_seq(a.alt_screen),
                          !.end = end_seq(a.alt_screen),
                          !.banner_template = banner.lines,
                          !.banner_width = banner.width,
                          !.pc = "start"]
    IN  Yielded(g1, g1.start)

\* the generator resumed normally (asend(None), or the awaited sleep ended);
\* loaded is the result of load_json_frames for the first step
gen_send(gen, a, loaded) ==
    CASE gen.pc = "created" ->
           IF loaded.raised # "none" THEN Raised([gen EXCEPT !.pc = "done"], loaded.raised)
           ELSE setup(gen, a, loaded.value)
      [] gen.pc = "start" ->
           loop_body([gen EXCEPT !.banner_offset = 0, !.n = Len(gen.frames), !.i = 0],
                     a.banner_color)
      [] gen.pc = "frame" -> Awaiting([gen EXCEPT !.pc = "sleep"])
      [] gen.pc = "sleep" ->
           IF loop_continues(gen.i, gen.n)
           THEN loop_body([gen EXCEPT !.i = next_index(gen.i, gen.n)], a.banner_color)
           ELSE finally_block(gen, "none")
      [] gen.pc = "end" -> after_finally(gen)

\* the generator resumed with an exception raised at its suspension point
gen_throw(gen, exc) ==
    CASE gen.pc = "created" -> Raised([gen EXCEPT !.pc = "done"], exc)
      [] gen.pc \in {"start", "frame", "sleep"} -> unwind(gen, exc)
      [] gen.pc = "end" ->
           IF teardown_except(exc) THEN after_finally(gen)
           ELSE Raised([gen EXCEPT !.pc = "done", !.pending = "none"], exc)

(* ------------------------------- state -------------------------------- *)
VARIABLES
    args,      \* the keyword arguments of the session (from the registry entry)
    g,         \* the async generator object of the session
    out,       \* the items the consumer has received from the generator
    res,       \* how the consumer's last call on the generator ended
    http,      \* the response: "idle", "500", "streaming", "started"
    hist,      \* what has happened to the session (for the properties)
    cache,     \* the entries of the lru_cache of load_json_frames, oldest first
    decodes,   \* per tracked source, how many times json.load has read it
    call,      \* the last call of load_json_frames and its outcome
    since,     \* per tracked source, the other sources loaded since its last use
    started,   \* the startup warm-up has run
    tmpl,      \* a banner template given to shift_lines
    tick,      \* the scroll tick of that template
    view,      \* shift_lines(tmpl.lines, tick, tmpl.width)
    seen,      \* the views of that template at the ticks 0..tick, in order
    art,       \* raw art lines and the block template built from them
    ss,        \* the concurrent sessions: arguments, generator, items received,
               \* the StringIO of the running or last composition, lines printed
    console,   \* CONSOLE.file: the session whose StringIO it is (0: none yet)
    bannerBig, \* the module-level list BANNER_BIG
    writers    \* per shared or owned object, the sessions whose steps wrote it

sessionVars == <<args, g, out, res, http, hist>>
cacheVars == <<cache, decodes, call, since, started>>
shiftVars == <<tmpl, tick, view, seen>>
concVars == <<ss, console, bannerBig, writers>>
auxVars == <<art, concVars>>
vars == <<args, g, out, res, http, hist, cache, decodes, call, since, started,
          tmpl, tick, view, seen, art, ss, console, bannerBig, writers>>

NoCall == [path |-> RelPath, raised |-> "none", value |-> <<>>, hit |-> FALSE,
           decoded |-> FALSE, gap |-> -1, op |-> "none"]
NoHist == [cancelled |-> FALSE, failure |-> "none", tearFail |-> "none",
           loadErr |-> "none", closed |-> FALSE, op |-> "none"]

\* the sources whose decode count and eviction the model follows
Tracked == {1, 2}

\* the registry: woohoo, clap and blyat, the file of clap missing
ANIMS == <<1, 4, 2>>

InitCache ==
    /\ cache = <<>>
    /\ decodes = [p \in Tracked |-> 0]
    /\ call = NoCall
    /\ since = [p \in Tracked |-> [valid |-> FALSE, others |-> {}]]
    /\ started = FALSE

InitSession ==
    /\ g = NewGen
    /\ out = <<>>
    /\ res = "none"
    /\ http = "idle"
    /\ hist = NoHist

InitShift ==
    /\ tmpl = [lines |-> <<>>, width |-> 0]
    /\ tick = 0
    /\ view = <<>>
    /\ seen = <<>>

NoArt == [raw |-> <<>>, built |-> FALSE, lines |-> <<>>, width |-> 0]

\* two client connections at a time
Sessions == {1, 2}
\* the colour of the registry entry each of them asked for
ConcColor(i) == IF i = 1 THEN "0,255,180" ELSE "255,64,0"
ConcArgs(i) ==
    [json_path : {1, 2}, banner_kind : {"big", "ticker"},
     banner_text : {<<"M", " ", " ", "S", " ">>}, banner_color : {ConcColor(i)},
     alt_screen : {FALSE}]
NewSession(a) == [args |-> a, g |-> NewGen, out |-> <<>>, buf |-> <<>>, k |-> -1]
NoWriters == [cache |-> {}, console |-> {}, banner_big |-> {},
              session |-> [j \in Sessions |-> {}]]

InitShared ==
    /\ console = 0
    /\ bannerBig = BANNER_BIG
    /\ writers = NoWriters

InitAux ==
    /\ art = NoArt
    /\ ss = [j \in Sessions |->
               NewSession([json_path |-> 1, banner_kind |-> "big",
                           banner_text |-> <<"M", " ", " ", "S", " ">>,
                           banner_color |-> ConcColor(j), alt_screen |-> FALSE])]
    /\ InitShared

\* the registry entries a request can name: the path, the banner kind, the
\* caption of the ticker and the colour
SessionPaths == {0, 1, 2, 3, 4, 7}
SessionArgs ==
    [json_path : SessionPaths, banner_kind : {"big", "ticker"},
     banner_text : {<<"M", " ", " ", "S", " ">>}, banner_color : {"0,255,180"},
     alt_screen : BOOLEAN]

\* json.load has read the file once more
CountDecode(d, json_path, loaded) ==
    IF loaded.decoded /\ json_path \in Tracked THEN [d EXCEPT ![json_path] = @ + 1] ELSE d

Init ==
    /\ args \in SessionArgs
    /\ InitSession
    /\ InitCache
    /\ InitShift
    /\ InitAux

(* ------------------------ the route and its consumer ------------------- *)
\* GET /a/{name} for a terminal client and a registered name (lines
\* 259-273): a relative path is answered with 500, otherwise the generator
\* object is created (none of its code runs) and handed to StreamingResponse
stream_anim ==
    /\ http = "idle"
    /\ http' = IF ~isabs(args.json_path) THEN "500" ELSE "streaming"
    /\ hist' = [hist EXCEPT !.op = "stream_anim"]
    /\ UNCHANGED <<args, g, out, res, cacheVars, shiftVars, auxVars>>

\* StreamingResponse sends the status line and the headers before it takes
\* the first item of the generator
ResponseStart ==
    /\ http = "streaming"
    /\ http' = "started"
    /\ hist' = [hist EXCEPT !.op = "response_start"]
    /\ UNCHANGED <<args, g, out, res, cacheVars, shiftVars, auxVars>>

\* how a call that resumed the generator ends for the consumer
CallResult(r) ==
    IF r.hasYield THEN "value"
    ELSE IF r.raised = "none" THEN "suspended" ELSE r.raised

\* the consumer asks for the next item: __anext__()
Anext ==
    /\ http = "started"
    /\ g.pc \in {"created", "start", "frame", "end"}
    /\ LET loaded == load_json_frames(cache, args.json_path)
           r == gen_send(g, args, loaded)
       IN  /\ g' = r.g
           /\ out' = IF r.hasYield THEN Append(out, r.yielded) ELSE out
           /\ res' = CallResult(r)
           /\ IF g.pc = "created"
                THEN /\ cache' = loaded.cache
                     /\ decodes' = CountDecode(decodes, args.json_path, loaded)
                     /\ hist' = [hist EXCEPT !.op = "anext", !.loadErr = loaded.raised]
                ELSE /\ UNCHANGED <<cache, decodes>>
                     /\ hist' = [hist EXCEPT !.op = "anext",
                                   !.failure = IF @ = "none" /\ r.g.pc = "end" /\ g.pc # "end"
                                               THEN r.g.pending ELSE @]
    /\ UNCHANGED <<args, http, call, since, started, shiftVars, auxVars>>

\* asyncio.sleep(delay) returns: the pending __anext__() goes round the loop
SleepDone ==
    /\ g.pc = "sleep"
    /\ g.banner_offset < MaxEmit
    /\ LET r == gen_send(g, args, NoCall)
       IN  /\ g' = r.g
           /\ out' = IF r.hasYield THEN Append(out, r.yielded) ELSE out
           /\ res' = CallResult(r)
           /\ hist' = [hist EXCEPT !.op = "sleep_done",
                         !.failure = IF @ = "none" /\ r.g.pc = "end"
                                     THEN r.g.pending ELSE @]
    /\ UNCHANGED <<args, http, cacheVars, shiftVars, auxVars>>

\* the task running __anext__() is cancelled while the generator awaits
\* the sleep: CancelledError is raised at line 204
Cancel ==
    /\ g.pc = "sleep"
    /\ LET r == gen_throw(g, "CancelledError")
       IN  /\ g' = r.g
           /\ out' = IF r.hasYield THEN Append(out, r.yielded) ELSE out
           /\ res' = CallResult(r)
           /\ hist' = [hist EXCEPT !.op = "cancel", !.cancelled = TRUE]
    /\ UNCHANGED <<args, http, cacheVars, shiftVars, auxVars>>

\* the consumer throws an exception in at the yield where the generator is
\* suspended: athrow(exc).  After a close the call ends at once.
Athrow(exc) ==
    /\ http = "started"
    /\ g.pc \in {"start", "frame", "end"}
    /\ IF g.closed
         THEN /\ res' = "StopAsyncIteration"
              /\ hist' = [hist EXCEPT !.op = "athrow"]
              /\ UNCHANGED <<g, out>>
         ELSE LET r == gen_throw(g, exc)
              IN  /\ g' = r.g
                  /\ out' = IF r.hasYield THEN Append(out, r.yielded) ELSE out
                  /\ res' = CallResult(r)
                  /\ hist' = [hist EXCEPT !.op = "athrow",
                       !.cancelled = @ \/ (exc = "CancelledError" /\ g.pc # "end"),
                       !.failure = IF g.pc # "end" /\ IsException(exc) THEN exc ELSE @,
                       !.tearFail = IF g.pc = "end" THEN exc ELSE @]
    /\ UNCHANGED <<args, http, cacheVars, shiftVars, auxVars>>

\* the consumer (or the event loop's finalizer) closes the generator:
\* aclose() raises GeneratorExit at the yield.  A generator that answers
\* with another yield makes aclose() raise RuntimeError, and the yielded
\* item is dropped.
Aclose ==
    /\ http \in {"streaming", "started"}
    /\ g.pc \in {"created", "start", "frame", "end"}
    /\ IF g.closed
         THEN /\ res' = "StopAsyncIteration"
              /\ UNCHANGED g
         ELSE LET r == gen_throw(g, "GeneratorExit")
              IN  /\ g' = [r.g EXCEPT !.closed = (r.g.pc # "done")]
                  /\ res' = IF r.hasYield THEN "RuntimeError"
                            ELSE IF g.pc = "created" \/ r.raised \in {"GeneratorExit", "StopAsyncIteration"}
                              THEN "None"
                            ELSE r.raised
    /\ hist' = [hist EXCEPT !.op = "aclose", !.closed = TRUE]
    /\ UNCHANGED <<args, out, http, cacheVars, shiftVars, auxVars>>

Next ==
    \/ stream_anim
    \/ ResponseStart
    \/ Anext
    \/ SleepDone
    \/ Cancel
    \/ \E exc \in {"CancelledError", "ConnectionResetError", "BrokenPipeError"} : Athrow(exc)
    \/ Aclose

Spec == Init /\ [][Next]_vars

\* the consumer finishes with a generator suspended at the teardown yield
\* (it asks for the next item, throws, or the event loop finalizes it)
Finish ==
    /\ g.pc = "end"
    /\ (Anext \/ Aclose \/ \E exc \in {"CancelledError", "BrokenPipeError"} : Athrow(exc))

FairSpec == Spec /\ WF_vars(Finish)

\* StreamingResponse keeps asking for the next item, and asyncio.sleep(delay)
\* returns after the delay
LiveSpec == Spec /\ WF_vars(Anext) /\ WF_vars(SleepDone)

(* ----------------------- properties of the session --------------------- *)
ErrorNames == {"RuntimeError", "ConnectionResetError", "BrokenPipeError", "MarkupError",
               "ValueError", "FileNotFoundError", "JSONDecodeError"}

SetupSeq == start_seq(args.alt_screen)
TeardownSeq == end_seq(args.alt_screen)
IsFrameItem(item) == item # <<>> /\ Head(item) = ESC_H
FrameItems == SelectSeq(out, IsFrameItem)
SessionOver == g.pc = "done" \/ g.closed

\* the frames of the session's source as the file holds them
SourceFrames == FileData(args.json_path).items

\* C1: a session that has started emitting has emitted the setup sequence
\* exactly once, never more than one teardown sequence, and exactly one
\* teardown sequence once it has been stopped, however it was stopped.
C1_SetupTeardownOnce ==
    out # <<>> =>
        /\ Count(out, SetupSeq) = 1
        /\ Count(out, TeardownSeq) <= 1
        /\ SessionOver => Count(out, TeardownSeq) = 1

RECURSIVE ContentOfLines(_)
ContentOfLines(ls) ==
    IF ls = <<>> THEN <<>> ELSE Head(ls) \o <<ESC_K, NL>> \o ContentOfLines(Tail(ls))
\* the lines of one frame, each with its erase-to-end-of-line and newline
ContentOf(frame) == ContentOfLines(splitlines(frame))

\* the buffer starts, after cursor-home, with the lines of that frame and
\* then the separator line
ShowsFrame(item, frame) ==
    LET c == ContentOf(frame)
    IN  /\ Len(item) >= Len(c) + 2
        /\ SubSeq(item, 2, Len(c) + 1) = c
        /\ item[Len(c) + 2] = ESC_K

\* C2: the k-th frame buffer received (k = 0, 1, ...) shows the frame at
\* index k mod n of the source.
C2_FramesInOrder ==
    \A k \in 1..Len(FrameItems) :
        ShowsFrame(FrameItems[k], SourceFrames[((k - 1) % Len(SourceFrames)) + 1].text)

\* five buffers of the three-frame source: frames 0, 1, 2, 0, 1
C2_Witness == args.json_path = 1 /\ Len(FrameItems) = 5

BannerLineCount == IF args.banner_kind = "big" THEN 2 ELSE 1

\* a complete composition of a frame of c lines with b banner lines
Complete(item, c, b) ==
    /\ Len(item) >= 2
    /\ item[1] = ESC_H
    /\ item[Len(item)] = ESC_J
    /\ Count(item, ESC_J) = 1
    /\ Count(item, NL) = c + 1 + b
    /\ Count(item, ESC_K) = c + 1 + b
    /\ \A q \in 2..Len(item) : item[q] = NL => item[q - 1] = ESC_K
    /\ item[Len(item) - 1] = NL
    /\ Count(item, "ESC[0m") = b

\* C4: every item received is the whole setup sequence, the whole teardown
\* sequence, or cursor-home and one complete composition of a frame of the
\* source.
C4_NoPartialFrame ==
    \A p \in 1..Len(out) :
        \/ out[p] = SetupSeq
        \/ out[p] = TeardownSeq
        \/ \E k \in 1..Len(SourceFrames) :
              /\ ShowsFrame(out[p], SourceFrames[k].text)
              /\ Complete(out[p], Len(splitlines(SourceFrames[k].text)), BannerLineCount)

\* cancelled during the pacing delay after at least two frame buffers
C4_Witness == hist.op = "cancel" /\ Len(FrameItems) >= 2 /\ out[Len(out)] = TeardownSeq

\* C5: once the session is past its load, no call on the generator ends in
\* an error other than the failure that stopped the session; in particular
\* emitting the teardown raises nothing new.
C5_TeardownNeverRaises ==
    (hist.loadErr = "none" /\ res \in ErrorNames) => res = hist.failure

\* C6: after an unexpected failure in the running session the teardown
\* sequence has been handed to the consumer, and the generator then ends
\* with that failure and no other error, also when the teardown emission
\* has failed.
C6_OriginalErrorSurfaces ==
    hist.failure # "none" =>
        /\ Count(out, TeardownSeq) = 1
        /\ (g.pc = "done" /\ res \in ErrorNames) => res = hist.failure
        /\ (g.pc = "done" /\ hist.op # "aclose" /\ hist.tearFail # "CancelledError")
               => res = hist.failure

\* the teardown emission failed with another error than the original one
C6_Witness ==
    /\ g.pc = "done"
    /\ hist.failure \in {"MarkupError", "ConnectionResetError"}
    /\ hist.tearFail = "BrokenPipeError"
    /\ res = hist.failure

\* C7: when the load of the source fails, nothing has been sent to the
\* client and nothing has been emitted.
C7_LoadErrorBeforeAnyEmission ==
    hist.loadErr # "none" => (out = <<>> /\ http # "started")

\* the frame of the source that the k-th frame buffer (k = 1, 2, ...) shows
FrameOfItem(k) == SourceFrames[((k - 1) % Len(SourceFrames)) + 1].text

\* C13: the buffer that render_frame_with_banner returned for a frame of c
\* lines and a banner view of b lines holds exactly c + 1 + b
\* erase-to-end-of-line sequences, each directly before a newline, and ends
\* with the only erase-to-end-of-screen sequence.
C13_ErasePerLine ==
    \A k \in 1..Len(FrameItems) :
        LET buf == Tail(FrameItems[k])
            c == Len(splitlines(FrameOfItem(k)))
            b == BannerLineCount
        IN  /\ Count(buf, ESC_K) = c + 1 + b
            /\ \A q \in 1..Len(buf) :
                  buf[q] = ESC_K => (q < Len(buf) /\ buf[q + 1] = NL)
            /\ Count(buf, NL) = c + 1 + b
            /\ buf[Len(buf)] = ESC_J
            /\ Count(buf, ESC_J) = 1

\* compositions of the empty frame, the one-line and the two-line frame under
\* the two-line banner
C13_Witness ==
    /\ args.json_path = 1 /\ args.banner_kind = "big"
    /\ Len(FrameItems) = 3
    /\ Count(Tail(FrameItems[1]), ESC_K) = 5
    /\ Count(Tail(FrameItems[3]), ESC_K) = 3

\* a line rotated left by t positions, by index arithmetic
RotatedBy(line, t) ==
    [q \in 1..Len(line) |-> line[((q - 1 + t) % Len(line)) + 1]]

RECURSIVE BannerOut(_, _, _)
\* what the consumer sees of a banner view: per line the colour escape, the
\* line rotated by t, the reset, ESC[K and the newline
BannerOut(lines, t, color) ==
    IF lines = <<>> THEN <<>>
    ELSE <<"ESC[38;2;", color, "m">> \o RotatedBy(Head(lines), t)
            \o <<"ESC[0m", ESC_K, NL>> \o BannerOut(Tail(lines), t, color)

\* the part of a frame buffer after the content lines and the separator
BannerPart(item, frame) ==
    SubSeq(item, Len(ContentOf(frame)) + 4, Len(item) - 1)

\* C15: the scroll tick starts at 0, never decreases and equals the number
\* of frame buffers emitted; the k-th buffer (k = 0, 1, ...) carries the
\* banner view at tick k, and after k buffers the next frame index is
\* k mod n.
C15_TickLockstep ==
    /\ [](g.banner_offset = Len(FrameItems))
    /\ [](g.pc \in {"frame", "sleep"} =>
            (g.i + 1) % g.n = Len(FrameItems) % g.n)
    /\ [](\A k \in 1..Len(FrameItems) :
            BannerPart(FrameItems[k], FrameOfItem(k))
                = BannerOut(g.banner_template, k - 1, args.banner_color))
    /\ [][/\ g'.banner_offset >= g.banner_offset
          /\ g'.banner_offset <= g.banner_offset + 1
          /\ (g'.banner_offset = g.banner_offset + 1) <=> (Len(out') = Len(out) + 1 /\ IsFrameItem(out'[Len(out')]))]_vars

\* four buffers of the two-frame source: tick 4, next frame index 0
C15_Witness ==
    /\ args.json_path = 2 /\ g.pc = "sleep"
    /\ g.banner_offset = 4 /\ g.i = 1
    /\ BannerPart(FrameItems[4], FrameOfItem(4)) # BannerPart(FrameItems[3], FrameOfItem(3))

\* C16: the teardown sequence leaves the alternate screen exactly when the
\* setup sequence of the session entered it, which is exactly when
\* alt_screen is set; the setup hides the cursor and the teardown shows it.
C16_ModeMatched ==
    \A p \in 1..Len(out) :
        /\ p = 1 =>
              /\ (Count(out[1], "ESC[?1049h") > 0) <=> args.alt_screen
              /\ Count(out[1], "ESC[?25l") = 1
              /\ Count(out[1], "ESC[?1049l") = 0
        /\ (p > 1 /\ ~IsFrameItem(out[p])) =>
              /\ (Count(out[p], "ESC[?1049l") > 0) <=> (Count(out[1], "ESC[?1049h") > 0)
              /\ (Count(out[p], "ESC[?1049l") > 0) <=> args.alt_screen
              /\ Count(out[p], "ESC[?25h") = 1
              /\ Count(out[p], "ESC[?1049h") = 0

\* an inline session that received its teardown after a frame
C16_Witness ==
    /\ ~args.alt_screen
    /\ Len(out) >= 3
    /\ out[Len(out)] = <<"ESC[?25h">>
    /\ out[1] = <<"ESC[2J", "ESC[H", "ESC[?25l">>

\* the session is in Running: suspended at the frame yield or at the sleep
InRunning(gen) == gen.pc \in {"frame", "sleep"}

\* C17 as stated: Running is left for Draining only from the pacing delay.
C17_OnlyFromPacingDelay ==
    [][(InRunning(g) /\ g'.pc = "end") => g.pc = "sleep"]_vars

\* C17: Running is left for Draining from the pacing delay when the task is
\* cancelled there, from the frame yield when the consumer throws into or
\* closes the generator there, and when composing the next buffer raises;
\* the step emits the teardown or nothing, never a part of a frame buffer.
C17_DrainingFromSuspensionPoints ==
    [][(InRunning(g) /\ g'.pc = "end") =>
          /\ \/ g.pc = "sleep" /\ hist'.op = "cancel"
             \/ g.pc = "frame" /\ hist'.op \in {"athrow", "aclose"}
             \/ g.pc = "sleep" /\ hist'.op = "sleep_done" /\ g'.pending = "MarkupError"
          /\ out' \in {out, Append(out, TeardownSeq)}]_vars

\* a session cancelled while its buffer was with the consumer, and one
\* cancelled in the pacing delay
C17_Witness ==
    /\ g.pc = "end" /\ hist.cancelled
    /\ hist.op \in {"athrow", "cancel"}
    /\ Len(FrameItems) >= 1

\* the session has been cancelled, closed, or has failed
Stopped ==
    \/ hist.cancelled
    \/ hist.closed
    \/ hist.failure # "none"
    \/ hist.loadErr # "none"
    \/ hist.tearFail # "none"

\* C18: a session that is not cancelled or closed and in which no emission
\* fails never reaches the teardown, and after each of its frame buffers
\* another one follows (up to the MaxEmit buffers of the model).
C18_RunsUntilStopped ==
    /\ [](~Stopped => (g.pc \notin {"end", "done"} /\ Count(out, TeardownSeq) = 0))
    /\ (g.pc = "start") ~> (Stopped \/ Len(FrameItems) >= 1)
    /\ \A k \in 1..(MaxEmit - 1) :
          (Len(FrameItems) = k) ~> (Stopped \/ Len(FrameItems) > k)

\* the three-frame source past its wrap, nothing having stopped the session
C18_Witness ==
    /\ ~Stopped
    /\ args.json_path = 1
    /\ Len(FrameItems) >= 4
    /\ g.pc \in {"frame", "sleep"}

(* --------------------------- the frame cache --------------------------- *)
\* the bookkeeping of the properties: a successful use of json_path makes
\* it most recent and adds it to the others of every other tracked source
Used(sn, json_path) ==
    [p \in Tracked |->
        IF p = json_path THEN [valid |-> TRUE, others |-> {}]
        ELSE [sn[p] EXCEPT !.others = @ \cup {json_path}]]
Cleared == [p \in Tracked |-> [valid |-> FALSE, others |-> {}]]

\* for a tracked source that was loaded and not cleared since, the number
\* of other sources used since its last use; -1 otherwise
GapOf(sn, json_path) ==
    IF json_path \in Tracked /\ sn[json_path].valid
    THEN Cardinality(sn[json_path].others) ELSE -1

\* the record of a call
CallOf(op, json_path, loaded, sn) ==
    [path |-> json_path, raised |-> loaded.raised, value |-> loaded.value,
     hit |-> loaded.hit, decoded |-> loaded.decoded,
     gap |-> GapOf(sn, json_path), op |-> op]

\* the state of the cache variables after one call of load_json_frames
AfterLoad(st, op, json_path) ==
    LET loaded == load_json_frames(st.cache, json_path)
    IN  [cache |-> loaded.cache,
         decodes |-> CountDecode(st.decodes, json_path, loaded),
         since |-> IF loaded.raised = "none" THEN Used(st.since, json_path) ELSE st.since,
         call |-> CallOf(op, json_path, loaded, st.since)]

\* one round of the warm-up loop (lines 283-287): the cache is cleared, the
\* path is loaded, and what the load raises is dropped
warmup_round(st, json_path) ==
    AfterLoad([st EXCEPT !.cache = <<>>, !.since = Cleared], "warmup", json_path)

RECURSIVE warmup_rounds(_, _)
warmup_rounds(st, paths) ==
    IF paths = <<>> THEN st
    ELSE warmup_rounds(warmup_round(st, Head(paths)), Tail(paths))

\* the startup handler (lines 276-287); every registered path is absolute
warmup_cache ==
    /\ ~started
    /\ \A k \in 1..Len(ANIMS) : isabs(ANIMS[k])
    /\ LET st == warmup_rounds([cache |-> cache, decodes |-> decodes,
                                since |-> since, call |-> call], ANIMS)
       IN  /\ cache' = st.cache
           /\ decodes' = st.decodes
           /\ since' = st.since
           /\ call' = st.call
    /\ started' = TRUE
    /\ UNCHANGED <<sessionVars, shiftVars, auxVars>>

\* the filler path to load next: the smallest one that is neither cached
\* nor counted among the others of a tracked source
NextFresh ==
    LET used == {p \in FreshPaths : p \in CacheKeys(cache)
                                    \/ \E q \in Tracked : p \in since[q].others}
    IN  {p \in FreshPaths \ used : \A q \in FreshPaths \ used : p <= q}

\* a call of load_json_frames(json_path) after startup
LoadCall(json_path) ==
    /\ started
    /\ (json_path \in Tracked /\ json_path \notin CacheKeys(cache))
           => decodes[json_path] < MaxDecodes
    /\ LET st == AfterLoad([cache |-> cache, decodes |-> decodes,
                            since |-> since, call |-> call], "load", json_path)
       IN  /\ cache' = st.cache
           /\ decodes' = st.decodes
           /\ since' = st.since
           /\ call' = st.call
    /\ UNCHANGED <<started, sessionVars, shiftVars, auxVars>>

LoadPaths == {0, 1, 4, 5, 6, 7, 8}

InitLoad ==
    /\ args \in {a \in SessionArgs : a.json_path = 1 /\ a.banner_kind = "big" /\ ~a.alt_screen}
    /\ InitSession
    /\ InitCache
    /\ InitShift
    /\ InitAux

NextLoad ==
    \/ warmup_cache
    \/ \E json_path \in LoadPaths \cup NextFresh : LoadCall(json_path)

SpecLoad == InitLoad /\ [][NextLoad]_vars

(* ---------------------- properties of the frame cache ------------------ *)
\* C8 as stated: a tracked (valid) source is never decoded a second time.
C8_DecodedOnce == \A p \in Tracked : decodes[p] <= 1

\* C8 amended: a load of a source that was loaded before, with no clearing
\* of the cache and fewer than maxsize other sources used since its last
\* use, is a hit: it returns the stored sequence and decodes nothing.
C8_RecentLoadIsCached ==
    (call.gap >= 0 /\ call.gap < maxsize) =>
        /\ call.hit
        /\ ~call.decoded
        /\ call.raised = "none"
        /\ call.value = FileData(call.path).items

\* a hit after maxsize - 1 other sources were used in between
C8_Witness == call.op = "load" /\ call.gap = maxsize - 1 /\ call.hit /\ Len(cache) = maxsize

BadPaths == {0, 4, 5, 6, 7, 8}
ValidSequence(value) == value # <<>> /\ \A k \in 1..Len(value) : value[k].isStr

\* C9: every cached entry is a non-empty sequence of text frames; a load of
\* a bad source raises; and a load that raises leaves the cache as it was.
C9_FailedLoadCachesNothing ==
    /\ [](\A k \in 1..Len(cache) : ValidSequence(cache[k].value))
    /\ []((call.op # "none" /\ call.path \in BadPaths) => call.raised # "none")
    /\ [][(call' # call /\ call'.op = "load" /\ call'.raised # "none") => cache' = cache]_vars

\* the load of the source whose second element is not text failed with
\* entries in the cache
C9_Witness == call.op = "load" /\ call.path = 7 /\ call.raised = "ValueError" /\ Len(cache) >= 2

\* C20: right after the warm-up every registered animation whose source
\* loads without error is in the cache, and the first load of one of them
\* after the warm-up is a hit that decodes nothing.
C20_WarmupFillsCache ==
    /\ []((started /\ call.op = "warmup") =>
            \A k \in 1..Len(ANIMS) :
                load_body(ANIMS[k]).raised = "none" => ANIMS[k] \in CacheKeys(cache))
    /\ [][(call.op = "warmup" /\ call'.op = "load" /\ call'.raised = "none"
              /\ \E k \in 1..Len(ANIMS) : ANIMS[k] = call'.path)
            => (call'.hit /\ ~call'.decoded)]_vars


(* ------------------------------ the banner ----------------------------- *)
Alphabet == {"A", "B"}
LinesOfWidth(w) == [1..w -> Alphabet]
ExampleTemplate == [lines |-> << <<"A", "B", "C", "D", "E", " ", " ">> >>, width |-> 7]

\* the templates given to shift_lines: one or two lines of a common width,
\* the example of the specification, and the two banners of the sessions
Templates ==
    {[lines |-> <<l>>, width |-> w] : w \in 0..MaxWidth, l \in UNION {LinesOfWidth(v) : v \in 0..MaxWidth}}
    \cup {[lines |-> <<l, m>>, width |-> w] :
            w \in 0..MaxWidth, l \in UNION {LinesOfWidth(v) : v \in 0..MaxWidth},
            m \in UNION {LinesOfWidth(v) : v \in 0..MaxWidth}}
    \cup {ExampleTemplate, [lines |-> BANNER_BIG, width |-> BANNER_BIG_WIDTH],
          make_ticker_lines(<<"M", " ", " ", "S", " ">>, PADDING)}

\* the line lengths equal the width, as both constructors guarantee
WellFormedTemplates == {t \in Templates : \A j \in 1..Len(t.lines) : Len(t.lines[j]) = t.width}

InitBanner ==
    /\ args \in {a \in SessionArgs : a.json_path = 1 /\ a.banner_kind = "big" /\ ~a.alt_screen}
    /\ InitSession
    /\ InitCache
    /\ InitAux
    /\ tmpl \in WellFormedTemplates
    /\ tick = 0
    /\ view = shift_lines(tmpl.lines, 0, tmpl.width)
    /\ seen = <<view>>

\* the view of the next tick (lines 199 and 201)
Scroll ==
    /\ tick < MaxTick
    /\ tick' = tick + 1
    /\ view' = shift_lines(tmpl.lines, tick + 1, tmpl.width)
    /\ seen' = Append(seen, view')
    /\ UNCHANGED <<tmpl, sessionVars, cacheVars, auxVars>>

NextBanner == Scroll

SpecBanner == InitBanner /\ [][NextBanner]_vars

\* C10: every line of the view is the line of the template rotated left by
\* tick mod max(1, W): the same length, the character at position q taken
\* from position q + o (circularly), the same characters; the example
\* "ABCDE  " reads "BCDE  A" at tick 1.
C10_SameRotationEveryLine ==
    LET W == tmpl.width
        o == tick % (IF W >= 1 THEN W ELSE 1)
    IN  /\ Len(view) = Len(tmpl.lines)
        /\ \A j \in 1..Len(tmpl.lines) :
              /\ Len(view[j]) = W
              /\ \A q \in 1..W : view[j][q] = tmpl.lines[j][((q - 1 + o) % W) + 1]
              /\ \A ch \in Alphabet \cup {" ", "C"} :
                    Count(view[j], ch) = Count(tmpl.lines[j], ch)
        /\ (tmpl = ExampleTemplate /\ tick = 0) => view = ExampleTemplate.lines
        /\ (tmpl = ExampleTemplate /\ tick = 1)
              => view = << <<"B", "C", "D", "E", " ", " ", "A">> >>

\* two different lines of width 3 at tick 4, one past the wrap
C10_Witness ==
    /\ Len(tmpl.lines) = 2 /\ tmpl.width = 3 /\ tick = 4
    /\ tmpl.lines[1] # tmpl.lines[2]
    /\ view[1] # tmpl.lines[1]


\* C11: the view is periodic with period W: two ticks that agree modulo W
\* (W >= 1) gave the same view, and the view at tick W is the view at tick 0.
C11_ViewPeriodic ==
    tmpl.width >= 1 =>
        /\ \A t1, t2 \in 0..tick :
              (t1 % tmpl.width = t2 % tmpl.width) => seen[t1 + 1] = seen[t2 + 1]
        /\ tick >= tmpl.width => seen[tmpl.width + 1] = seen[1]

\* a template that a rotation changes, two full periods later
C11_Witness ==
    /\ tmpl.width = 3 /\ tick = 7
    /\ seen[2] # seen[1]
    /\ seen[8] = seen[2]

(* --------------------------- the block builder ------------------------- *)
RawAlphabet == {" ", "A"}
RawLines == UNION {[1..w -> RawAlphabet] : w \in 0..MaxRawLen}
RawArts == UNION {[1..m -> RawLines] : m \in 0..MaxRawLines}

InitBlock ==
    /\ args \in {a \in SessionArgs : a.json_path = 1 /\ a.banner_kind = "big" /\ ~a.alt_screen}
    /\ InitSession
    /\ InitCache
    /\ InitShift
    /\ art \in {[NoArt EXCEPT !.raw = r] : r \in RawArts}
    /\ ss = [j \in Sessions |->
               NewSession([json_path |-> 1, banner_kind |-> "big",
                           banner_text |-> <<"M", " ", " ", "S", " ">>,
                           banner_color |-> ConcColor(j), alt_screen |-> FALSE])]
    /\ InitShared

\* BANNER_BIG, BANNER_BIG_WIDTH = _normalize_banner_lines(raw, pad=PADDING)
BuildBlock ==
    /\ ~art.built
    /\ LET b == normalize_banner_lines(art.raw, PADDING)
       IN  art' = [art EXCEPT !.built = TRUE, !.lines = b.lines, !.width = b.width]
    /\ UNCHANGED <<sessionVars, cacheVars, shiftVars, concVars>>

NextBlock == BuildBlock

SpecBlock == InitBlock /\ [][NextBlock]_vars

\* the length of a line without its trailing blanks
TrimmedLen(line) ==
    IF \A k \in 1..Len(line) : line[k] = " " THEN 0
    ELSE CHOOSE k \in 1..Len(line) :
            line[k] # " " /\ \A q \in (k + 1)..Len(line) : line[q] = " "

\* the positions of the raw lines that are not blank
KeptRaw(raw) == {k \in 1..Len(raw) : TrimmedLen(raw[k]) > 0}

\* the length L of the longest trimmed non-blank raw line (0 without one)
LongestTrimmed(raw) ==
    IF KeptRaw(raw) = {} THEN 0
    ELSE CHOOSE l \in 0..MaxRawLen + 1 :
            /\ \E k \in KeptRaw(raw) : TrimmedLen(raw[k]) = l
            /\ \A k \in KeptRaw(raw) : TrimmedLen(raw[k]) <= l

\* C12: the block template has one line per non-blank raw line, its width
\* is L + PADDING for the longest trimmed non-blank raw line L, and every
\* line has exactly that length.
C12_BlockWidth ==
    art.built =>
        /\ art.width = LongestTrimmed(art.raw) + PADDING
        /\ Len(art.lines) = Cardinality(KeptRaw(art.raw))
        /\ \A k \in 1..Len(art.lines) : Len(art.lines[k]) = LongestTrimmed(art.raw) + PADDING

\* a blank line longer than every trimmed line was dropped before measuring
C12_Witness ==
    /\ art.built
    /\ Len(art.raw) = 2 /\ Len(art.lines) = 1
    /\ \E k \in 1..2 : Len(art.raw[k]) = 3 /\ TrimmedLen(art.raw[k]) = 0
    /\ art.width = 1 + PADDING


(* -------------------------- concurrent sessions ------------------------ *)
\* the number of the remaining lines that render_frame_with_banner prints
\* before another task can run, when it prints one line and yields control
render_chunk_m(remaining) == 1
\* render_frame_with_banner is a plain function without await: all its
\* lines are printed before another task can run
render_chunk(remaining) == remaining

\* a rotation done in place, in the list it was given
template_after_m(template, shifted) == shifted
\* shift_lines yields new strings and leaves the list it was given as it is
template_after(template, shifted) == template

\* the lines a composition prints: the content lines, the separator, the
\* banner lines in their colour tag
RenderLines(frame_rich_text, banner_lines, banner_color) ==
    splitlines(frame_rich_text) \o << <<>> >>
        \o [q \in 1..Len(banner_lines) |-> ColorWrap(banner_color, banner_lines[q])]

\* print_line_and_clear in the session own: CONSOLE.print writes to the
\* StringIO that is CONSOLE.file now, buf.write to the session's own
console_print_line(s, file, own, line) ==
    LET s1 == [s EXCEPT ![file].buf = @ \o ConsolePrint(line)]
    IN  [s1 EXCEPT ![own].buf = @ \o <<ESC_K, NL>>]

RECURSIVE print_lines(_, _, _, _)
print_lines(s, file, own, lines) ==
    IF lines = <<>> THEN s
    ELSE print_lines(console_print_line(s, file, own, Head(lines)), file, own, Tail(lines))

\* the generator of session i as it runs: the big banner is the shared list
GenOf(i) ==
    IF ss[i].args.banner_kind = "big"
    THEN [ss[i].g EXCEPT !.banner_template = bannerBig]
    ELSE ss[i].g

\* the sessions, CONSOLE.file and BANNER_BIG after session i's generator was
\* resumed with the result r.  A pass of the loop body composes through
\* CONSOLE; a composition that has not printed all its lines goes on at the
\* next step of the session
SessionStep(i, r) ==
    IF r.hasYield /\ r.g.pc = "frame"
    THEN LET a == ss[i].args
             frame == r.g.frames[r.g.i + 1].text
             shifted == shift_lines(GenOf(i).banner_template, GenOf(i).banner_offset,
                                    GenOf(i).banner_width)
             lines == RenderLines(frame, shifted, a.banner_color)
             fresh == ss[i].k = -1
             k0 == IF fresh THEN 0 ELSE ss[i].k
             file == IF fresh THEN i ELSE console
             s0 == IF fresh THEN [ss EXCEPT ![i].buf = <<>>] ELSE ss
             m == render_chunk(Len(lines) - k0)
             s1 == print_lines(s0, file, i, SubSeq(lines, k0 + 1, k0 + m))
             s2 == [s1 EXCEPT ![i].buf = @ \o <<ESC_J>>]
             g2 == IF a.banner_kind = "big" THEN [r.g EXCEPT !.banner_template = ss[i].g.banner_template]
                   ELSE [r.g EXCEPT !.banner_template = template_after(@, shifted)]
         IN  [ss |-> IF k0 + m = Len(lines)
                     THEN [s2 EXCEPT ![i].g = g2,
                                     ![i].out = Append(@, <<ESC_H>> \o s2[i].buf),
                                     ![i].k = -1]
                     ELSE [s1 EXCEPT ![i].k = k0 + m],
              console |-> file,
              bannerBig |-> IF a.banner_kind = "big" /\ fresh
                            THEN template_after(bannerBig, shifted) ELSE bannerBig,
              assigned |-> fresh]
    ELSE [ss |-> [ss EXCEPT ![i].g = r.g,
                            ![i].out = IF r.hasYield THEN Append(@, r.yielded) ELSE @],
          console |-> console, bannerBig |-> bannerBig, assigned |-> FALSE]

\* the objects that the step of session i has written
Written(i, st, newCache) ==
    [cache |-> writers.cache \cup (IF newCache # cache THEN {i} ELSE {}),
     console |-> writers.console \cup (IF st.assigned THEN {i} ELSE {}),
     banner_big |-> writers.banner_big \cup (IF st.bannerBig # bannerBig THEN {i} ELSE {}),
     session |-> [j \in Sessions |->
                    writers.session[j] \cup (IF st.ss[j] # ss[j] THEN {i} ELSE {})]]

\* the consumer of session i asks for the next item
ConcAnext(i) ==
    /\ ss[i].g.pc \in {"created", "start", "frame", "end"}
    /\ LET loaded == load_json_frames(cache, ss[i].args.json_path)
           newCache == IF ss[i].g.pc = "created" THEN loaded.cache ELSE cache
           st == SessionStep(i, gen_send(GenOf(i), ss[i].args, loaded))
       IN  /\ ss' = st.ss
           /\ console' = st.console
           /\ bannerBig' = st.bannerBig
           /\ cache' = newCache
           /\ writers' = Written(i, st, newCache)
    /\ UNCHANGED <<sessionVars, decodes, call, since, started, shiftVars, art>>

\* the sleep of session i returns
ConcSleepDone(i) ==
    /\ ss[i].g.pc = "sleep"
    /\ ss[i].g.banner_offset < MaxConcEmit
    /\ LET st == SessionStep(i, gen_send(GenOf(i), ss[i].args, NoCall))
       IN  /\ ss' = st.ss
           /\ console' = st.console
           /\ bannerBig' = st.bannerBig
           /\ writers' = Written(i, st, cache)
    /\ UNCHANGED <<sessionVars, cacheVars, shiftVars, art>>

\* the task of session i is cancelled in its sleep
ConcCancel(i) ==
    /\ ss[i].g.pc = "sleep"
    /\ LET st == SessionStep(i, gen_throw(GenOf(i), "CancelledError"))
       IN  /\ ss' = st.ss
           /\ console' = st.console
           /\ bannerBig' = st.bannerBig
           /\ writers' = Written(i, st, cache)
    /\ UNCHANGED <<sessionVars, cacheVars, shiftVars, art>>

InitConc ==
    /\ args \in {a \in SessionArgs : a.json_path = 1 /\ a.banner_kind = "big" /\ ~a.alt_screen}
    /\ InitSession
    /\ InitCache
    /\ InitShift
    /\ art = NoArt
    /\ ss \in [Sessions -> UNION {{NewSession(a) : a \in ConcArgs(j)} : j \in Sessions}]
    /\ \A j \in Sessions : ss[j].args.banner_color = ConcColor(j)
    /\ InitShared

NextConc ==
    \E i \in Sessions :
        \/ ConcAnext(i)
        \/ ConcSleepDone(i)
        \/ ConcCancel(i)

SpecConc == InitConc /\ [][NextConc]_vars

\* the frame buffers session i has received
ConcFrameItems(i) == SelectSeq(ss[i].out, IsFrameItem)
\* the frame of its source that its k-th frame buffer shows
ConcFrame(i, k) ==
    LET fs == FileData(ss[i].args.json_path).items
    IN  fs[((k - 1) % Len(fs)) + 1].text
\* the banner template of the session's banner kind
ConcTemplate(i) ==
    IF ss[i].args.banner_kind = "big" THEN BANNER_BIG
    ELSE make_ticker_lines(ss[i].args.banner_text, PADDING).lines

\* C14 as stated: the cache is only read, and no object is written by the
\* steps of two sessions.
C14_NoSharedWrites ==
    /\ writers.cache = {}
    /\ Cardinality(writers.console) <= 1
    /\ Cardinality(writers.banner_big) <= 1
    /\ \A j \in Sessions : writers.session[j] \subseteq {j}

\* C14: the steps of a session write, besides the cache and CONSOLE.file,
\* only that session's own variables and buffer; BANNER_BIG and the cached
\* frames are never written; and each session's scroll tick counts its own
\* frame buffers, also when both animate the same source.
C14_SessionStateOwned ==
    /\ \A j \in Sessions : writers.session[j] \subseteq {j}
    /\ writers.banner_big = {} /\ bannerBig = BANNER_BIG
    /\ \A q \in 1..Len(cache) : cache[q].value = FileData(cache[q].key).items
    /\ \A j \in Sessions : ss[j].g.banner_offset = Len(ConcFrameItems(j))

\* two sessions on the same source and the same banner, at different ticks,
\* after both filled or used the cache and reassigned CONSOLE.file
C14_Witness ==
    /\ ss[1].args.json_path = ss[2].args.json_path
    /\ ss[1].args.banner_kind = "big" /\ ss[2].args.banner_kind = "big"
    /\ ss[1].g.banner_offset = 2 /\ ss[2].g.banner_offset = 1
    /\ writers.console = Sessions
    /\ writers.cache # {}

\* C19: every frame buffer a session has received is cursor-home and the
\* composition of that session's own frame and banner view in its own
\* colour, whatever the other session composed in between.
C19_OwnLinesOnly ==
    \A i \in Sessions :
        \A k \in 1..Len(ConcFrameItems(i)) :
            ConcFrameItems(i)[k]
                = <<ESC_H>> \o ContentOf(ConcFrame(i, k)) \o <<ESC_K, NL>>
                    \o BannerOut(ConcTemplate(i), k - 1, ss[i].args.banner_color)
                    \o <<ESC_J>>

\* the compositions of the two sessions alternated through CONSOLE
C19_Witness ==
    /\ Len(ConcFrameItems(1)) = 2 /\ Len(ConcFrameItems(2)) = 2
    /\ console = 1
    /\ writers.console = Sessions
    /\ ss[1].g.pc = "frame" /\ ss[2].g.pc = "sleep"
    /\ ss[1].buf # ss[2].buf

====
